---- MODULE Spec2Model ----
(***************************************************************************)
(* grxxt: the greetd IPC client (src/src/greetd.rs).                       *)
(*                                                                         *)
(* The model follows one GreetdClient over its UnixStream.  Every blocking *)
(* socket operation of the client (connect, one write, one read) is one    *)
(* step; the daemon on the other end of the stream is the environment and  *)
(* answers a request with any Response, with an undecodable frame, or not  *)
(* at all.  Spec drives the client the way authenticate() does; SpecClient *)
(* also lets a caller use the public methods of GreetdClient directly, in  *)
(* any order.                                                              *)
(*                                                                         *)
(* Text that the code only carries (user name, password, descriptions,     *)
(* prompts) is a TLA+ string.  The session command line, which the code    *)
(* takes apart character by character, is a sequence of characters.        *)
(***************************************************************************)
EXTENDS Integers, Sequences, FiniteSets, TLC

VARIABLES
    pc,           \* where the caller of the client stands
    greetd_sock,  \* TRUE iff the environment variable GREETD_SOCK is set
    username,     \* authenticate(username, _, _)
    password,     \* authenticate(_, password, _)
    session_cmd,  \* authenticate(_, _, session_cmd)
    stream,       \* GreetdClient.stream: "none", "open", "closed" (dropped)
    sock_ops,     \* socket operations attempted on behalf of this attempt
    written,      \* number of requests written to the stream
    unread,       \* frames the daemon has written and the client has not read
    answered,     \* number of requests the daemon has answered
    sent,         \* requests this authenticate call has written, oldest first
    received,     \* responses this authenticate call has read, oldest first
    outstanding,  \* requests written whose response the client has not read
    pipelined,    \* TRUE once a request was written while another was outstanding
    method,       \* the directly called method that is blocked in receive()
    ret,          \* what the last directly called GreetdClient method returned
    result,       \* what authenticate returned
    attempts,     \* number of authenticate calls / direct connects so far
    calls,        \* number of direct method calls on the current client
    io,           \* what each socket operation of this authenticate call returned
    prev,         \* the previous authenticate call, when this one repeats it
    greeter,      \* the Greeter: username, password, error, authenticating, focus
    msg,          \* the Message that Greeter::update handled last
    flip,         \* changes at every call of Greeter::update
    tui           \* the terminal loop of main.rs: where run stands, what is on screen

vars == <<pc, greetd_sock, username, password, session_cmd, stream, sock_ops,
          written, unread, answered, sent, received, outstanding, pipelined,
          method, ret, result, attempts, calls, io, prev, greeter, msg, flip,
          tui>>

----------------------------------------------------------------------------
(* Bounds of the model. *)

MaxAttempts == 2
MaxCalls == 2

----------------------------------------------------------------------------
(* Text values. *)

Usernames == {"", "alice"}
Passwords == {"", "secret"}
Descriptions == {"", "denied"}
Prompts == {"", "OTP:"}
ConnectErrors == {"Connection refused"}
WriteErrors == {"Broken pipe"}
ReadErrors == {"failed to fill whole buffer"}
DecodeErrors == {"expected value"}

\* "/bin/sh"
CmdBinSh == <<"/", "b", "i", "n", "/", "s", "h">>
\* "sh -c 'a b'"
CmdQuoted == <<"s", "h", " ", "-", "c", " ", "'", "a", " ", "b", "'">>
\* "sh 'a"   (the quote is never closed)
CmdUnbalanced == <<"s", "h", " ", "'", "a">>

SessionCmds == {CmdBinSh, CmdQuoted, CmdUnbalanced}

----------------------------------------------------------------------------
(* greetd_ipc messages. *)

CreateSession(u) == [type |-> "create_session", username |-> u]
\* response: Option<String>, <<>> is None and <<s>> is Some(s)
PostAuthMessageResponse(r) == [type |-> "post_auth_message_response", response |-> r]
StartSession(c, e) == [type |-> "start_session", cmd |-> c, env |-> e]
CancelSession == [type |-> "cancel_session"]

Success == [type |-> "success"]
AuthMessage(k, m) == [type |-> "auth_message", auth_message_type |-> k, auth_message |-> m]
Error(t, d) == [type |-> "error", error_type |-> t, description |-> d]

AuthMessageType == {"visible", "secret", "info", "error"}
ErrorType == {"auth_error", "error"}

Response ==
    {Success}
    \cup {AuthMessage(k, m) : k \in AuthMessageType, m \in Prompts}
    \cup {Error(t, d) : t \in ErrorType, d \in Descriptions}

\* A frame whose payload does not decode to a Response.
Undecodable == [type |-> "undecodable"]

----------------------------------------------------------------------------
(* Result<_, AuthError> and AuthState. *)

Ok == [tag |-> "Ok"]
OkState(s) == [tag |-> "Ok", state |-> s]
OkResponse(r) == [tag |-> "Ok", response |-> r]
Err(e) == [tag |-> "Err", error |-> e]
None == [tag |-> "None"]

ConnectionFailed(m) == [kind |-> "ConnectionFailed", msg |-> m]
ProtocolError(m) == [kind |-> "ProtocolError", msg |-> m]
AuthFailed(m) == [kind |-> "AuthFailed", msg |-> m]

NeedInput(m) == [state |-> "NeedInput", text |-> m]
NeedSecret(m) == [state |-> "NeedSecret", text |-> m]
Info(m) == [state |-> "Info", text |-> m]
StateError(m) == [state |-> "Error", text |-> m]
Done == [state |-> "Done"]

----------------------------------------------------------------------------
(* Pure functions of greetd.rs. *)

\* AuthError's Display: the text the caller shows for a failure.
Display(e) ==
    CASE e.kind = "ConnectionFailed" -> <<"Connection failed: ", e.msg>>
      [] e.kind = "ProtocolError" -> <<"Protocol error: ", e.msg>>
      [] e.kind = "AuthFailed" -> <<e.msg>>

\* Variant of format_error without the normalisation of an empty description.
format_error_verbatim(error_type, description) == description

format_error(error_type, description) ==
    CASE error_type = "auth_error" ->
            IF description = "" THEN "Authentication failed" ELSE description
      [] error_type = "error" -> description

\* The grave accent, which a TLA+ string cannot hold.
Backquote == "grave"

\* shell_words::split, the state machine of the shell-words crate: st is its
\* State, word the word being built, words the words finished so far, i the
\* index of the next character of s.  [ok |-> FALSE] is Err(ParseError).
RECURSIVE split_from(_, _, _, _, _)
split_from(s, i, st, word, words) ==
    LET end == i > Len(s)
        c == IF end THEN "" ELSE s[i]
        blank == c \in {" ", "\t", "\n"}
        go(st2, word2, words2) == split_from(s, i + 1, st2, word2, words2)
    IN  CASE st = "Delimiter" ->
                IF end THEN [ok |-> TRUE, words |-> words]
                ELSE IF c = "'" THEN go("SingleQuoted", word, words)
                ELSE IF c = "\"" THEN go("DoubleQuoted", word, words)
                ELSE IF c = "\\" THEN go("Backslash", word, words)
                ELSE IF blank THEN go("Delimiter", word, words)
                ELSE IF c = "#" THEN go("Comment", word, words)
                ELSE go("Unquoted", Append(word, c), words)
          [] st = "Backslash" ->
                IF end THEN [ok |-> TRUE, words |-> Append(words, Append(word, "\\"))]
                ELSE IF c = "\n" THEN go("Delimiter", word, words)
                ELSE go("Unquoted", Append(word, c), words)
          [] st = "Unquoted" ->
                IF end THEN [ok |-> TRUE, words |-> Append(words, word)]
                ELSE IF c = "'" THEN go("SingleQuoted", word, words)
                ELSE IF c = "\"" THEN go("DoubleQuoted", word, words)
                ELSE IF c = "\\" THEN go("UnquotedBackslash", word, words)
                ELSE IF blank THEN go("Delimiter", <<>>, Append(words, word))
                ELSE go("Unquoted", Append(word, c), words)
          [] st = "UnquotedBackslash" ->
                IF end THEN [ok |-> TRUE, words |-> Append(words, Append(word, "\\"))]
                ELSE IF c = "\n" THEN go("Unquoted", word, words)
                ELSE go("Unquoted", Append(word, c), words)
          [] st = "SingleQuoted" ->
                IF end THEN [ok |-> FALSE]
                ELSE IF c = "'" THEN go("Unquoted", word, words)
                ELSE go("SingleQuoted", Append(word, c), words)
          [] st = "DoubleQuoted" ->
                IF end THEN [ok |-> FALSE]
                ELSE IF c = "\"" THEN go("Unquoted", word, words)
                ELSE IF c = "\\" THEN go("DoubleQuotedBackslash", word, words)
                ELSE go("DoubleQuoted", Append(word, c), words)
          [] st = "DoubleQuotedBackslash" ->
                IF end THEN [ok |-> FALSE]
                ELSE IF c = "\n" THEN go("DoubleQuoted", word, words)
                ELSE IF c \in {"$", Backquote, "\"", "\\"}
                     THEN go("DoubleQuoted", Append(word, c), words)
                ELSE go("DoubleQuoted", Append(Append(word, "\\"), c), words)
          [] st = "Comment" ->
                IF end THEN [ok |-> TRUE, words |-> words]
                ELSE IF c = "\n" THEN go("Delimiter", word, words)
                ELSE go("Comment", word, words)

shell_words_split(s) == split_from(s, 1, "Delimiter", <<>>, <<>>)

\* Variant of session_argv with an empty argv when the split fails.
session_argv_or_empty(cmd) ==
    LET r == shell_words_split(cmd)
    IN  IF r.ok THEN r.words ELSE <<>>

\* let cmd = shell_words::split(session_cmd).unwrap_or_else(|_| vec![session_cmd])
session_argv(cmd) ==
    LET r == shell_words_split(cmd)
    IN  IF r.ok THEN r.words ELSE <<cmd>>

\* Variant of create_session that looks at the AuthMessage and takes one of
\* kind Error for a failure.
create_session_inspecting(rx) ==
    IF rx.tag = "Err" THEN rx
    ELSE CASE rx.response.type = "success" -> Ok
           [] rx.response.type = "auth_message" ->
                IF rx.response.auth_message_type = "error"
                THEN Err(AuthFailed(rx.response.auth_message))
                ELSE Ok
           [] rx.response.type = "error" ->
                Err(AuthFailed(format_error(rx.response.error_type,
                                            rx.response.description)))

\* Variant of create_session that goes on after an Error response.
create_session_ignoring_error(rx) ==
    IF rx.tag = "Err" THEN rx ELSE Ok

\* Variant of create_session that goes on when receive() failed.
create_session_unchecked(rx) ==
    IF rx.tag = "Err" THEN Ok
    ELSE CASE rx.response.type = "error" ->
                Err(AuthFailed(format_error(rx.response.error_type,
                                            rx.response.description)))
           [] OTHER -> Ok

\* The match of create_session on what receive() returned (rx).
create_session(rx) ==
    IF rx.tag = "Err" THEN rx
    ELSE CASE rx.response.type = "success" -> Ok
           [] rx.response.type = "auth_message" -> Ok
           [] rx.response.type = "error" ->
                Err(AuthFailed(format_error(rx.response.error_type,
                                            rx.response.description)))

\* The match of post_auth_response on what receive() returned.
post_auth_response(rx) ==
    IF rx.tag = "Err" THEN rx
    ELSE CASE rx.response.type = "success" -> OkState(Done)
           [] rx.response.type = "auth_message" ->
                (LET m == rx.response.auth_message
                 IN  CASE rx.response.auth_message_type = "visible" -> OkState(NeedInput(m))
                       [] rx.response.auth_message_type = "secret" -> OkState(NeedSecret(m))
                       [] rx.response.auth_message_type = "info" -> OkState(Info(m))
                       [] rx.response.auth_message_type = "error" -> OkState(StateError(m)))
           [] rx.response.type = "error" ->
                Err(AuthFailed(format_error(rx.response.error_type,
                                            rx.response.description)))

\* Variant of start_session whose last arm is the lenient one of
\* cancel_session.
start_session_lenient(rx) ==
    IF rx.tag = "Err" THEN rx
    ELSE CASE rx.response.type = "error" ->
                Err(AuthFailed(format_error(rx.response.error_type,
                                            rx.response.description)))
           [] OTHER -> Ok

\* Variant of start_session without the arm for Response::Error.
start_session_no_error_arm(rx) ==
    IF rx.tag = "Err" THEN rx
    ELSE CASE rx.response.type = "success" -> Ok
           [] OTHER -> Err(ProtocolError("Unexpected response"))

\* The match of start_session on what receive() returned.
start_session(rx) ==
    IF rx.tag = "Err" THEN rx
    ELSE CASE rx.response.type = "success" -> Ok
           [] rx.response.type = "error" ->
                Err(AuthFailed(format_error(rx.response.error_type,
                                            rx.response.description)))
           [] OTHER -> Err(ProtocolError("Unexpected response"))

\* The match of cancel_session on what receive() returned.
cancel_session(rx) ==
    IF rx.tag = "Err" THEN rx
    ELSE CASE rx.response.type = "success" -> Ok
           [] rx.response.type = "error" ->
                Err(AuthFailed(format_error(rx.response.error_type,
                                            rx.response.description)))
           [] OTHER -> Ok

\* Variant of auth_state_match that goes on to start_session after a prompt.
auth_state_match_prompt_done(state) ==
    CASE state.state = "Error" -> Err(AuthFailed(state.text))
      [] OTHER -> Ok

\* Variant of auth_state_match that puts the text of a prompt into the error.
auth_state_match_relaying_text(state) ==
    CASE state.state = "Done" -> Ok
      [] state.state = "Error" -> Err(AuthFailed(state.text))
      [] OTHER -> Err(ProtocolError(state.text))

\* Variant of auth_state_match that reports Info the way it reports Error.
auth_state_match_info_fails(state) ==
    CASE state.state = "Done" -> Ok
      [] state.state \in {"Error", "Info"} -> Err(AuthFailed(state.text))
      [] OTHER -> Err(ProtocolError("Unexpected auth state"))

\* Variant of auth_state_match without the arm for AuthState::Error.
auth_state_match_no_error_arm(state) ==
    CASE state.state = "Done" -> Ok
      [] OTHER -> Err(ProtocolError("Unexpected auth state"))

\* Variant of auth_state_match that takes Info for Done.
auth_state_match_info_done(state) ==
    CASE state.state \in {"Done", "Info"} -> Ok
      [] state.state = "Error" -> Err(AuthFailed(state.text))
      [] OTHER -> Err(ProtocolError("Unexpected auth state"))

\* The match of authenticate on the AuthState post_auth_response returned,
\* up to the call of start_session: Ok means "go on to start_session".
auth_state_match(state) ==
    CASE state.state = "Done" -> Ok
      [] state.state = "Error" -> Err(AuthFailed(state.text))
      [] OTHER -> Err(ProtocolError("Unexpected auth state"))

----------------------------------------------------------------------------
(* The Greeter of app.rs. *)

\* Option<String>: <<>> is None, <<s>> is Some(s).  A displayed text is the
\* sequence of the pieces it is put together from.
Some(s) == <<s>>
NoError == <<>>

\* impl Default for Greeter (the avatar plays no part in update)
GreeterDefault ==
    [username |-> "", password |-> "", error |-> NoError,
     authenticating |-> FALSE, focus |-> "Username"]

----------------------------------------------------------------------------
(* The stream: send, receive and the daemon at the other end. *)

\* Variant of send that reports a failed write as ConnectionFailed.
send_outcomes_connection_failed ==
    {Ok} \cup {Err(ConnectionFailed(e)) : e \in WriteErrors}

\* What send() can return: the write succeeds or fails with an I/O error.
send_outcomes == {Ok} \cup {Err(ProtocolError(e)) : e \in WriteErrors}

\* Variant of receive with a timeout: with no frame waiting the read can give
\* up with ConnectionFailed.
receive_outcomes_with_timeout ==
    IF unread = <<>>
    THEN {Err(ProtocolError(e)) : e \in ReadErrors}
         \cup {Err(ConnectionFailed("timed out"))}
    ELSE IF Head(unread) = Undecodable
         THEN {Err(ProtocolError(e)) : e \in DecodeErrors}
         ELSE {OkResponse(Head(unread))}

\* What receive() can return now.  With a frame waiting it is read and
\* decoded; with none waiting the read either blocks (no step) or fails.
receive_outcomes ==
    IF unread = <<>>
    THEN {Err(ProtocolError(e)) : e \in ReadErrors}
    ELSE IF Head(unread) = Undecodable
         THEN {Err(ProtocolError(e)) : e \in DecodeErrors}
         ELSE {OkResponse(Head(unread))}

\* request.write_to(&mut self.stream), with outcome tx.
Send(tx) ==
    /\ sock_ops' = Append(sock_ops, "write")
    /\ IF tx.tag = "Ok"
       THEN /\ written' = written + 1
            /\ outstanding' = outstanding + 1
            /\ pipelined' = (pipelined \/ outstanding > 0)
       ELSE UNCHANGED <<written, outstanding, pipelined>>
    /\ UNCHANGED <<unread, answered>>

\* Response::read_from(&mut self.stream), with outcome rx.
Receive(rx) ==
    /\ sock_ops' = Append(sock_ops, "read")
    /\ IF unread = <<>>
       THEN UNCHANGED <<unread, outstanding>>
       ELSE /\ unread' = Tail(unread)
            /\ outstanding' = outstanding - 1
    /\ UNCHANGED <<written, answered, pipelined>>

\* The daemon answers the oldest request it has not answered yet.
DaemonReply ==
    /\ stream = "open"
    /\ answered < written
    /\ \E frame \in Response \cup {Undecodable} :
          unread' = Append(unread, frame)
    /\ answered' = answered + 1
    /\ UNCHANGED <<pc, greetd_sock, username, password, session_cmd, stream,
                   sock_ops, written, sent, received, outstanding, pipelined,
                   method, ret, result, attempts, calls>>
    /\ UNCHANGED <<io, prev, greeter, msg, flip, tui>>

\* Variant of connect that connects whether or not GREETD_SOCK is set.
connect_outcomes_any_path ==
    {[ret |-> Ok, ops |-> <<"connect">>]}
    \cup {[ret |-> Err(ConnectionFailed(e)), ops |-> <<"connect">>] :
             e \in ConnectErrors}

\* GreetdClient::connect(): what it returns (ret) and the socket operations
\* it makes (ops).  With GREETD_SOCK not set it returns before touching a
\* socket; otherwise UnixStream::connect succeeds or fails.
connect_outcomes ==
    IF ~greetd_sock
    THEN {[ret |-> Err(ConnectionFailed("GREETD_SOCK not set")), ops |-> <<>>]}
    ELSE {[ret |-> Ok, ops |-> <<"connect">>]}
         \cup {[ret |-> Err(ConnectionFailed(e)), ops |-> <<"connect">>] :
                  e \in ConnectErrors}

----------------------------------------------------------------------------
(* authenticate(username, password, session_cmd) *)

\* authenticate's view of a send() with outcome tx ...
AuthSend(request, tx) ==
    /\ Send(tx)
    /\ sent' = IF tx.tag = "Ok" THEN Append(sent, request) ELSE sent
    /\ io' = Append(io, tx)
    /\ UNCHANGED received

\* ... and of a receive() with outcome rx.
AuthReceive(rx) ==
    /\ Receive(rx)
    /\ received' = IF rx.tag = "Ok" THEN Append(received, rx.response) ELSE received
    /\ io' = Append(io, rx)
    /\ UNCHANGED sent

\* Variant of Return that keeps the connection of the client.
ReturnKeepingStream(r) ==
    /\ result' = r
    /\ pc' = "returned"
    /\ UNCHANGED stream

\* authenticate returns r; its client, if it has one, is dropped.
Return(r) ==
    /\ result' = r
    /\ pc' = "returned"
    /\ stream' = IF stream = "open" THEN "closed" ELSE stream

\* authenticate(u, p, c) is called.
Begin(u, p, c) ==
    /\ pc \in {"idle", "returned"}
    /\ attempts < MaxAttempts
    /\ attempts' = attempts + 1
    /\ username' = u
    /\ password' = p
    /\ session_cmd' = c
    /\ pc' = "connect"
    /\ stream' = "none"
    /\ sock_ops' = <<>>
    /\ written' = 0
    /\ unread' = <<>>
    /\ answered' = 0
    /\ sent' = <<>>
    /\ received' = <<>>
    /\ outstanding' = 0
    /\ pipelined' = FALSE
    /\ result' = None
    /\ io' = <<>>
    /\ UNCHANGED <<greetd_sock, method, ret, calls>>

\* A caller calls authenticate with any arguments.
Authenticate(u, p, c) ==
    /\ Begin(u, p, c)
    /\ UNCHANGED <<prev, greeter, msg, flip, tui>>

NoCallBefore == [attempt |-> 0]

\* A caller whose authenticate call has returned calls it again with the same
\* arguments; prev keeps what the call that has returned did.
AuthenticateAgain ==
    /\ pc = "returned"
    /\ result.tag = "Err"
    /\ Begin(username, password, session_cmd)
    /\ prev' = [attempt |-> attempts, io |-> io, sock_ops |-> sock_ops,
                sent |-> sent, result |-> result]
    /\ UNCHANGED <<greeter, msg, flip, tui>>

\* Variant of Connect that tries again when the connect failed.
ConnectRetrying ==
    /\ pc = "connect"
    /\ \E cx \in connect_outcomes :
          /\ sock_ops' = sock_ops \o cx.ops
          /\ io' = Append(io, cx.ret)
          /\ IF cx.ret.tag = "Ok"
             THEN /\ stream' = "open"
                  /\ pc' = "create_session"
             ELSE UNCHANGED <<stream, pc>>
          /\ UNCHANGED result
    /\ UNCHANGED <<prev, greeter, msg, flip, tui>>
    /\ UNCHANGED <<greetd_sock, username, password, session_cmd, written,
                   unread, answered, sent, received, outstanding, pipelined,
                   method, ret, attempts, calls>>

\* Variant of Connect that resumes the session of the call before: after an
\* earlier call it goes on with the password instead of CreateSession.
ConnectResuming ==
    /\ pc = "connect"
    /\ \E cx \in connect_outcomes :
          /\ sock_ops' = sock_ops \o cx.ops
          /\ io' = Append(io, cx.ret)
          /\ IF cx.ret.tag = "Ok"
             THEN /\ stream' = "open"
                  /\ pc' = IF attempts > 1 THEN "post_auth_response"
                                           ELSE "create_session"
                  /\ UNCHANGED result
             ELSE Return(cx.ret)
    /\ UNCHANGED <<prev, greeter, msg, flip, tui>>
    /\ UNCHANGED <<greetd_sock, username, password, session_cmd, written,
                   unread, answered, sent, received, outstanding, pipelined,
                   method, ret, attempts, calls>>

\* let mut client = GreetdClient::connect()?;
Connect ==
    /\ pc = "connect"
    /\ \E cx \in connect_outcomes :
          /\ sock_ops' = sock_ops \o cx.ops
          /\ io' = Append(io, cx.ret)
          /\ IF cx.ret.tag = "Ok"
             THEN /\ stream' = "open"
                  /\ pc' = "create_session"
                  /\ UNCHANGED result
             ELSE Return(cx.ret)
    /\ UNCHANGED <<prev, greeter, msg, flip, tui>>
    /\ UNCHANGED <<greetd_sock, username, password, session_cmd, written,
                   unread, answered, sent, received, outstanding, pipelined,
                   method, ret, attempts, calls>>

\* client.create_session(username)?  up to its receive()
CreateSessionSend ==
    /\ pc = "create_session"
    /\ \E tx \in send_outcomes :
          /\ AuthSend(CreateSession(username), tx)
          /\ IF tx.tag = "Ok"
             THEN pc' = "create_session_receive" /\ UNCHANGED <<result, stream>>
             ELSE Return(tx)
    /\ UNCHANGED <<prev, greeter, msg, flip, tui>>
    /\ UNCHANGED <<greetd_sock, username, password, session_cmd, method, ret,
                   attempts, calls>>

\* client.create_session(username)?  from its receive()
CreateSessionReceive ==
    /\ pc = "create_session_receive"
    /\ \E rx \in receive_outcomes :
          /\ AuthReceive(rx)
          /\ LET r == create_session(rx)
             IN  IF r.tag = "Ok"
                 THEN pc' = "post_auth_response" /\ UNCHANGED <<result, stream>>
                 ELSE Return(r)
    /\ UNCHANGED <<prev, greeter, msg, flip, tui>>
    /\ UNCHANGED <<greetd_sock, username, password, session_cmd, method, ret,
                   attempts, calls>>

\* Variant of PostAuthResponseSend that answers with None.
PostAuthResponseSendNone ==
    /\ pc = "post_auth_response"
    /\ \E tx \in send_outcomes :
          /\ AuthSend(PostAuthMessageResponse(<<>>), tx)
          /\ IF tx.tag = "Ok"
             THEN pc' = "post_auth_response_receive" /\ UNCHANGED <<result, stream>>
             ELSE Return(tx)
    /\ UNCHANGED <<prev, greeter, msg, flip, tui>>
    /\ UNCHANGED <<greetd_sock, username, password, session_cmd, method, ret,
                   attempts, calls>>

\* client.post_auth_response(Some(password))?  up to its receive()
PostAuthResponseSend ==
    /\ pc = "post_auth_response"
    /\ \E tx \in send_outcomes :
          /\ AuthSend(PostAuthMessageResponse(<<password>>), tx)
          /\ IF tx.tag = "Ok"
             THEN pc' = "post_auth_response_receive" /\ UNCHANGED <<result, stream>>
             ELSE Return(tx)
    /\ UNCHANGED <<prev, greeter, msg, flip, tui>>
    /\ UNCHANGED <<greetd_sock, username, password, session_cmd, method, ret,
                   attempts, calls>>

\* client.post_auth_response(Some(password))?  from its receive(), and the
\* match on the state it returns, up to the call of start_session
PostAuthResponseReceive ==
    /\ pc = "post_auth_response_receive"
    /\ \E rx \in receive_outcomes :
          /\ AuthReceive(rx)
          /\ LET r == post_auth_response(rx)
                 m == IF r.tag = "Ok" THEN auth_state_match(r.state) ELSE r
             IN  IF m.tag = "Ok"
                 THEN pc' = "start_session" /\ UNCHANGED <<result, stream>>
                 ELSE Return(m)
    /\ UNCHANGED <<prev, greeter, msg, flip, tui>>
    /\ UNCHANGED <<greetd_sock, username, password, session_cmd, method, ret,
                   attempts, calls>>

\* client.start_session(cmd)?  up to its receive()
StartSessionSend ==
    /\ pc = "start_session"
    /\ \E tx \in send_outcomes :
          /\ AuthSend(StartSession(session_argv(session_cmd), <<>>), tx)
          /\ IF tx.tag = "Ok"
             THEN pc' = "start_session_receive" /\ UNCHANGED <<result, stream>>
             ELSE Return(tx)
    /\ UNCHANGED <<prev, greeter, msg, flip, tui>>
    /\ UNCHANGED <<greetd_sock, username, password, session_cmd, method, ret,
                   attempts, calls>>

\* client.start_session(cmd)?; Ok(())  from its receive()
StartSessionReceive ==
    /\ pc = "start_session_receive"
    /\ \E rx \in receive_outcomes :
          /\ AuthReceive(rx)
          /\ Return(start_session(rx))
    /\ UNCHANGED <<prev, greeter, msg, flip, tui>>
    /\ UNCHANGED <<greetd_sock, username, password, session_cmd, method, ret,
                   attempts, calls>>

----------------------------------------------------------------------------
(* A caller that uses GreetdClient directly. *)

NoCall == [name |-> "none"]

Methods == {"create_session", "post_auth_response", "start_session", "cancel_session"}

\* The requests a direct call of method m can send, over the arguments the
\* caller may pass.  start_session always sends an empty env.
requests_of(m) ==
    CASE m = "create_session" -> {CreateSession(u) : u \in Usernames}
      [] m = "post_auth_response" ->
            {PostAuthMessageResponse(<<>>)}
            \cup {PostAuthMessageResponse(<<p>>) : p \in Passwords}
      [] m = "start_session" ->
            {StartSession(session_argv(c), <<>>) : c \in SessionCmds}
      [] m = "cancel_session" -> {CancelSession}

\* What method m returns when its receive() returned rx.
method_match(m, rx) ==
    CASE m = "create_session" -> create_session(rx)
      [] m = "post_auth_response" -> post_auth_response(rx)
      [] m = "start_session" -> start_session(rx)
      [] m = "cancel_session" -> cancel_session(rx)

\* GreetdClient::connect() called directly.
ClientConnect ==
    /\ pc = "idle"
    /\ attempts < MaxAttempts
    /\ attempts' = attempts + 1
    /\ \E cx \in connect_outcomes :
          /\ sock_ops' = cx.ops
          /\ stream' = IF cx.ret.tag = "Ok" THEN "open" ELSE "none"
          /\ pc' = IF cx.ret.tag = "Ok" THEN "client" ELSE "idle"
          /\ ret' = cx.ret
    /\ calls' = 0
    /\ UNCHANGED <<io, prev, greeter, msg, flip, tui>>
    /\ UNCHANGED <<greetd_sock, username, password, session_cmd, written,
                   unread, answered, sent, received, outstanding, pipelined,
                   method, result>>

\* A method of the client is called: its send().
ClientSend(m) ==
    /\ pc = "client"
    /\ calls < MaxCalls
    /\ calls' = calls + 1
    /\ \E request \in requests_of(m), tx \in send_outcomes :
          /\ Send(tx)
          /\ IF tx.tag = "Ok"
             THEN /\ pc' = "client_receive"
                  /\ method' = [name |-> m, request |-> request]
                  /\ ret' = None
             ELSE /\ pc' = "client"
                  /\ ret' = tx
                  /\ UNCHANGED method
    /\ UNCHANGED <<io, prev, greeter, msg, flip, tui>>
    /\ UNCHANGED <<greetd_sock, username, password, session_cmd, stream, sent,
                   received, result, attempts>>

\* The called method's receive() and its match.
ClientReceive ==
    /\ pc = "client_receive"
    /\ \E rx \in receive_outcomes :
          /\ Receive(rx)
          /\ ret' = method_match(method.name, rx)
    /\ pc' = "client"
    /\ method' = NoCall
    /\ UNCHANGED <<io, prev, greeter, msg, flip, tui>>
    /\ UNCHANGED <<greetd_sock, username, password, session_cmd, stream, sent,
                   received, result, attempts, calls>>

----------------------------------------------------------------------------
(* The Greeter (app.rs): its update function, one action per Message. *)

\* const DEFAULT_SESSION: &str = "Hyprland";
DEFAULT_SESSION == <<"H", "y", "p", "r", "l", "a", "n", "d">>

UsernameRequired == Some(<<"Username required">>)
PasswordRequired == Some(<<"Password required">>)

PowerMessages == {"Shutdown", "Reboot", "Suspend"}

\* run of main.rs has not been entered: the terminal loop is not the front end.
NotRun == [at |-> "off"]

\* Everything but the Greeter: the authenticate task and its socket.
auth_vars ==
    <<pc, greetd_sock, username, password, session_cmd, stream, sock_ops,
      written, unread, answered, sent, received, outstanding, pipelined,
      method, ret, result, attempts, calls, io, prev>>

\* update(message) is entered; the process has not exited.
Update(m) ==
    /\ tui = NotRun
    /\ pc # "exited"
    /\ msg' = m
    /\ flip' = ~flip
    /\ UNCHANGED tui

\* Message::UsernameChanged(value)
UsernameChanged(value) ==
    /\ Update("UsernameChanged")
    /\ greeter' = [greeter EXCEPT !.username = value, !.error = NoError]
    /\ UNCHANGED auth_vars

\* Message::PasswordChanged(value)
PasswordChanged(value) ==
    /\ Update("PasswordChanged")
    /\ greeter' = [greeter EXCEPT !.password = value, !.error = NoError]
    /\ UNCHANGED auth_vars

\* The Task of Submit: spawn_blocking(authenticate(&username, &password,
\* DEFAULT_SESSION)) with the fields as they are now.
PerformAuthenticate ==
    /\ Begin(greeter.username, greeter.password, DEFAULT_SESSION)
    /\ UNCHANGED prev

\* Variant of Submit without the authenticating guard.
SubmitWhileAuthenticating ==
    /\ Update("Submit")
    /\ IF greeter.focus = "Username"
       THEN /\ greeter' = [greeter EXCEPT !.focus = "Password"]
            /\ UNCHANGED auth_vars
       ELSE IF greeter.username = ""
       THEN /\ greeter' = [greeter EXCEPT !.error = UsernameRequired,
                                          !.focus = "Username"]
            /\ UNCHANGED auth_vars
       ELSE IF greeter.password = ""
       THEN /\ greeter' = [greeter EXCEPT !.error = PasswordRequired]
            /\ UNCHANGED auth_vars
       ELSE /\ greeter' = [greeter EXCEPT !.authenticating = TRUE,
                                          !.error = NoError]
            /\ PerformAuthenticate

\* Variant of Submit without the check of the username.
SubmitAnyUsername ==
    /\ Update("Submit")
    /\ IF greeter.authenticating
       THEN UNCHANGED <<greeter, auth_vars>>
       ELSE IF greeter.focus = "Username"
       THEN /\ greeter' = [greeter EXCEPT !.focus = "Password"]
            /\ UNCHANGED auth_vars
       ELSE IF greeter.password = ""
       THEN /\ greeter' = [greeter EXCEPT !.error = PasswordRequired]
            /\ UNCHANGED auth_vars
       ELSE /\ greeter' = [greeter EXCEPT !.authenticating = TRUE,
                                          !.error = NoError]
            /\ PerformAuthenticate

\* Variant of Submit without the check of the password.
SubmitAnyPassword ==
    /\ Update("Submit")
    /\ IF greeter.authenticating
       THEN UNCHANGED <<greeter, auth_vars>>
       ELSE IF greeter.focus = "Username"
       THEN /\ greeter' = [greeter EXCEPT !.focus = "Password"]
            /\ UNCHANGED auth_vars
       ELSE IF greeter.username = ""
       THEN /\ greeter' = [greeter EXCEPT !.error = UsernameRequired,
                                          !.focus = "Username"]
            /\ UNCHANGED auth_vars
       ELSE /\ greeter' = [greeter EXCEPT !.authenticating = TRUE,
                                          !.error = NoError]
            /\ PerformAuthenticate

\* Message::Submit
Submit ==
    /\ Update("Submit")
    /\ IF greeter.authenticating
       THEN UNCHANGED <<greeter, auth_vars>>
       ELSE IF greeter.focus = "Username"
       THEN /\ greeter' = [greeter EXCEPT !.focus = "Password"]
            /\ UNCHANGED auth_vars
       ELSE IF greeter.username = ""
       THEN /\ greeter' = [greeter EXCEPT !.error = UsernameRequired,
                                          !.focus = "Username"]
            /\ UNCHANGED auth_vars
       ELSE IF greeter.password = ""
       THEN /\ greeter' = [greeter EXCEPT !.error = PasswordRequired]
            /\ UNCHANGED auth_vars
       ELSE /\ greeter' = [greeter EXCEPT !.authenticating = TRUE,
                                          !.error = NoError]
            /\ PerformAuthenticate

\* The state of the Greeter after AuthResult(Err(text)).
failure_shown(text) ==
    [greeter EXCEPT !.authenticating = FALSE, !.error = Some(text),
                    !.password = "", !.focus = "Password"]

\* Variant of AuthResult that keeps the password typed.
AuthResultKeepingPassword ==
    /\ greeter.authenticating
    /\ pc = "returned"
    /\ Update("AuthResult")
    /\ IF result.tag = "Ok"
       THEN /\ greeter' = [greeter EXCEPT !.authenticating = FALSE]
            /\ pc' = "exited"
       ELSE /\ greeter' = [failure_shown(Display(result.error))
                             EXCEPT !.password = greeter.password]
            /\ UNCHANGED pc
    /\ UNCHANGED <<greetd_sock, username, password, session_cmd, stream,
                   sock_ops, written, unread, answered, sent, received,
                   outstanding, pipelined, method, ret, result, attempts,
                   calls, io, prev>>

\* Variant of AuthResult that gives the focus to the username field.
AuthResultFocusUsername ==
    /\ greeter.authenticating
    /\ pc = "returned"
    /\ Update("AuthResult")
    /\ IF result.tag = "Ok"
       THEN /\ greeter' = [greeter EXCEPT !.authenticating = FALSE]
            /\ pc' = "exited"
       ELSE /\ greeter' = [failure_shown(Display(result.error))
                             EXCEPT !.focus = "Username"]
            /\ UNCHANGED pc
    /\ UNCHANGED <<greetd_sock, username, password, session_cmd, stream,
                   sock_ops, written, unread, answered, sent, received,
                   outstanding, pipelined, method, ret, result, attempts,
                   calls, io, prev>>

\* Message::AuthResult(result): the task of Submit has finished and its
\* result, with the error turned into its text, is delivered.
AuthResult ==
    /\ greeter.authenticating
    /\ pc = "returned"
    /\ Update("AuthResult")
    /\ IF result.tag = "Ok"
       THEN /\ greeter' = [greeter EXCEPT !.authenticating = FALSE]
            /\ pc' = "exited"
       ELSE /\ greeter' = failure_shown(Display(result.error))
            /\ UNCHANGED pc
    /\ UNCHANGED <<greetd_sock, username, password, session_cmd, stream,
                   sock_ops, written, unread, answered, sent, received,
                   outstanding, pipelined, method, ret, result, attempts,
                   calls, io, prev>>

\* Message::Tick
Tick ==
    /\ Update("Tick")
    /\ UNCHANGED <<greeter, auth_vars>>

\* Message::Shutdown, Message::Reboot, Message::Suspend: systemctl is spawned.
Power(m) ==
    /\ Update(m)
    /\ UNCHANGED <<greeter, auth_vars>>

----------------------------------------------------------------------------
(* The terminal front end: run of main.rs.  App is not in app.rs; what the
   loop calls of it is modelled after the specification, on the fields that
   ui.rs reads (username, password, error, authenticating, focus), kept in
   greeter. *)

\* render_form: the message line under the form.
status_line(app) ==
    IF app.error # NoError
    THEN [line |-> "error", text |-> app.error]
    ELSE IF app.authenticating
    THEN [line |-> "authenticating...", text |-> NoError]
    ELSE [line |-> "", text |-> NoError]

\* App::submit: validation of the two fields; Some(AuthResult::Pending) with
\* the indicator set and the error cleared when an attempt is to be made.
submit(app) ==
    IF app.username = ""
    THEN [app |-> [app EXCEPT !.error = UsernameRequired], ret |-> "None"]
    ELSE IF app.password = ""
    THEN [app |-> [app EXCEPT !.error = PasswordRequired], ret |-> "None"]
    ELSE [app |-> [app EXCEPT !.authenticating = TRUE, !.error = NoError],
          ret |-> "Pending"]

\* App::do_authenticate after authenticate has returned r: AuthResult::Success,
\* or the failure shown with the password cleared and the focus on it.
do_authenticate_result(app, r) ==
    IF r.tag = "Ok"
    THEN [app |-> [app EXCEPT !.authenticating = FALSE], ret |-> "Success"]
    ELSE [app |-> [app EXCEPT !.authenticating = FALSE,
                              !.error = Some(Display(r.error)),
                              !.password = "", !.focus = "Password"],
          ret |-> "Failed"]

\* App::input_char, App::backspace: the focused field gets a new value and
\* the error goes.
input(app, value) ==
    IF app.focus = "Username"
    THEN [app EXCEPT !.username = value, !.error = NoError]
    ELSE [app EXCEPT !.password = value, !.error = NoError]

\* App::next_field, App::prev_field
other_field(app) ==
    [app EXCEPT !.focus = IF app.focus = "Username" THEN "Password"
                                                    ELSE "Username"]

\* What the keys can make of the focused field.
typed == IF greeter.focus = "Username" THEN Usernames ELSE Passwords

\* config.session, the session command do_authenticate passes.
ConfigSessions == {CmdBinSh}

\* main: run(&mut terminal, &config) is entered, with App::new(config).
Run ==
    /\ tui = NotRun
    /\ pc = "idle"
    /\ msg = "none"
    /\ tui' = [at |-> "draw", screen |-> status_line(GreeterDefault)]
    /\ UNCHANGED <<greeter, msg, flip, auth_vars>>

\* terminal.draw(|frame| ui::render(frame, &app)) at the top of the loop
Draw ==
    /\ tui.at = "draw"
    /\ tui' = [at |-> "poll", screen |-> status_line(greeter)]
    /\ UNCHANGED <<greeter, msg, flip, auth_vars>>

\* event::poll timed out, or the event was no key press.
PollTimeout ==
    /\ tui.at = "poll"
    /\ tui' = [tui EXCEPT !.at = "draw"]
    /\ UNCHANGED <<greeter, msg, flip, auth_vars>>

\* KeyCode::Char, KeyCode::Backspace
KeyInput(value) ==
    /\ tui.at = "poll"
    /\ greeter' = input(greeter, value)
    /\ tui' = [tui EXCEPT !.at = "draw"]
    /\ UNCHANGED <<msg, flip, auth_vars>>

\* KeyCode::Tab, KeyCode::BackTab
KeyTab ==
    /\ tui.at = "poll"
    /\ greeter' = other_field(greeter)
    /\ tui' = [tui EXCEPT !.at = "draw"]
    /\ UNCHANGED <<msg, flip, auth_vars>>

\* KeyCode::F(1), F(2), F(3): App::shutdown, reboot, suspend
KeyPower ==
    /\ tui.at = "poll"
    /\ tui' = [tui EXCEPT !.at = "draw"]
    /\ UNCHANGED <<greeter, msg, flip, auth_vars>>

\* KeyCode::Esc: app.quit(), then the break on app.should_quit
KeyEsc ==
    /\ tui.at = "poll"
    /\ tui' = [tui EXCEPT !.at = "quit"]
    /\ UNCHANGED <<greeter, msg, flip, auth_vars>>

\* Variant of KeyEnter that goes to the blocking call without the draw.
KeyEnterWithoutDraw ==
    /\ tui.at = "poll"
    /\ LET s == submit(greeter)
       IN  /\ greeter' = s.app
           /\ tui' = [tui EXCEPT !.at = IF s.ret = "Pending"
                                        THEN "do_authenticate" ELSE "draw"]
    /\ UNCHANGED <<msg, flip, auth_vars>>

\* KeyCode::Enter: if app.submit() == Some(AuthResult::Pending) the loop goes
\* on to the draw before the blocking call, else to the top of the loop.
KeyEnter ==
    /\ tui.at = "poll"
    /\ LET s == submit(greeter)
       IN  /\ greeter' = s.app
           /\ tui' = [tui EXCEPT !.at = IF s.ret = "Pending"
                                        THEN "pending_draw" ELSE "draw"]
    /\ UNCHANGED <<msg, flip, auth_vars>>

\* terminal.draw(..) after Pending: "authenticating..." is rendered.
PendingDraw ==
    /\ tui.at = "pending_draw"
    /\ tui' = [at |-> "do_authenticate", screen |-> status_line(greeter)]
    /\ UNCHANGED <<greeter, msg, flip, auth_vars>>

\* app.do_authenticate() is called: authenticate with the fields and the
\* session of the configuration; the loop blocks in it.
DoAuthenticate ==
    /\ tui.at = "do_authenticate"
    /\ \E c \in ConfigSessions : Begin(greeter.username, greeter.password, c)
    /\ tui' = [tui EXCEPT !.at = "blocked"]
    /\ UNCHANGED <<greeter, msg, flip, prev>>

\* app.do_authenticate() returns: break on AuthResult::Success, else on to
\* the top of the loop.
DoAuthenticateReturn ==
    /\ tui.at = "blocked"
    /\ pc = "returned"
    /\ LET d == do_authenticate_result(greeter, result)
       IN  /\ greeter' = d.app
           /\ tui' = [tui EXCEPT !.at = IF d.ret = "Success"
                                        THEN "ended" ELSE "draw"]
    /\ UNCHANGED <<msg, flip, auth_vars>>

----------------------------------------------------------------------------
(* Specifications. *)

Init ==
    /\ pc = "idle"
    /\ greetd_sock \in BOOLEAN
    /\ username = ""
    /\ password = ""
    /\ session_cmd = <<>>
    /\ stream = "none"
    /\ sock_ops = <<>>
    /\ written = 0
    /\ unread = <<>>
    /\ answered = 0
    /\ sent = <<>>
    /\ received = <<>>
    /\ outstanding = 0
    /\ pipelined = FALSE
    /\ method = NoCall
    /\ ret = None
    /\ result = None
    /\ attempts = 0
    /\ calls = 0
    /\ io = <<>>
    /\ prev = NoCallBefore
    /\ greeter = GreeterDefault
    /\ msg = "none"
    /\ flip = FALSE
    /\ tui = NotRun

Next ==
    \/ \E u \in Usernames, p \in Passwords, c \in SessionCmds : Authenticate(u, p, c)
    \/ Connect
    \/ CreateSessionSend
    \/ CreateSessionReceive
    \/ PostAuthResponseSend
    \/ PostAuthResponseReceive
    \/ StartSessionSend
    \/ StartSessionReceive
    \/ DaemonReply

Spec == Init /\ [][Next]_vars

\* authenticate called, and called again with the same arguments after it
\* has failed.
NextAgain ==
    \/ \E u \in Usernames, p \in Passwords, c \in SessionCmds :
          pc = "idle" /\ Authenticate(u, p, c)
    \/ AuthenticateAgain
    \/ Connect
    \/ CreateSessionSend
    \/ CreateSessionReceive
    \/ PostAuthResponseSend
    \/ PostAuthResponseReceive
    \/ StartSessionSend
    \/ StartSessionReceive
    \/ DaemonReply

SpecAgain == Init /\ [][NextAgain]_vars

\* The Greeter: messages of the user and of the clock, interleaved with the
\* steps of the authenticate task that Submit has started.
NextUI ==
    \/ \E value \in Usernames : UsernameChanged(value)
    \/ \E value \in Passwords : PasswordChanged(value)
    \/ Submit
    \/ AuthResult
    \/ Tick
    \/ \E m \in PowerMessages : Power(m)
    \/ Connect
    \/ CreateSessionSend
    \/ CreateSessionReceive
    \/ PostAuthResponseSend
    \/ PostAuthResponseReceive
    \/ StartSessionSend
    \/ StartSessionReceive
    \/ DaemonReply

SpecUI == Init /\ [][NextUI]_vars

\* Either front end: the Greeter of app.rs, or the terminal loop of main.rs
\* once run is entered.
NextFrontEnd ==
    \/ NextUI
    \/ Run
    \/ Draw
    \/ PollTimeout
    \/ \E value \in typed : KeyInput(value)
    \/ KeyTab
    \/ KeyPower
    \/ KeyEsc
    \/ KeyEnter
    \/ PendingDraw
    \/ DoAuthenticate
    \/ DoAuthenticateReturn

SpecFrontEnd == Init /\ [][NextFrontEnd]_vars

\* The steps of a running authenticate call.
AuthSteps ==
    \/ Connect
    \/ CreateSessionSend
    \/ CreateSessionReceive
    \/ PostAuthResponseSend
    \/ PostAuthResponseReceive
    \/ StartSessionSend
    \/ StartSessionReceive

\* The Greeter with a call that goes on whenever it can (its thread is
\* scheduled, its blocking reads and writes come back) and a daemon that
\* answers every request.
SpecLive == SpecUI /\ WF_vars(AuthSteps) /\ WF_vars(DaemonReply)

NextClient ==
    \/ Next
    \/ ClientConnect
    \/ \E m \in Methods : ClientSend(m)
    \/ ClientReceive

SpecClient == Init /\ [][NextClient]_vars

----------------------------------------------------------------------------
(* Properties of authenticate. *)

returned == pc = "returned"

\* The i-th response authenticate has read is r.
reply_is(i, r) == Len(received) >= i /\ received[i] = r

\* The i-th response authenticate has read is an AuthMessage of a kind in K.
reply_is_auth_message(i, K) ==
    /\ Len(received) >= i
    /\ received[i].type = "auth_message"
    /\ received[i].auth_message_type \in K

\* authenticate has written a StartSession request.
start_session_sent == \E i \in 1..Len(sent) : sent[i].type = "start_session"

\* C1: when the daemon has answered Success to CreateSession, to
\* PostAuthMessageResponse and to StartSession, authenticate returns Ok(()),
\* and what it has sent is exactly CreateSession(username),
\* PostAuthMessageResponse(Some(password)), StartSession(argv of the session
\* command, no environment), in that order; the argv of "/bin/sh" is the one
\* word "/bin/sh".
C1_SuccessPath ==
    (reply_is(1, Success) /\ reply_is(2, Success) /\ reply_is(3, Success)) =>
        /\ returned
        /\ result = Ok
        /\ sent = << CreateSession(username),
                     PostAuthMessageResponse(<<password>>),
                     StartSession(session_argv(session_cmd), <<>>) >>
        /\ (session_cmd = CmdBinSh => sent[3].cmd = <<CmdBinSh>>)

C1_Witness ==
    /\ returned
    /\ result = Ok
    /\ received = <<Success, Success, Success>>
    /\ username = "alice"
    /\ password = "secret"
    /\ session_cmd = CmdBinSh

\* C2: authenticate returns Ok(()) exactly when it has written a StartSession
\* request on the connection of this call and has read Success as the answer
\* to it; whenever it has returned otherwise, it has returned an Err.
C2_SuccessOnlyAfterStartSession ==
    returned =>
        /\ result.tag \in {"Ok", "Err"}
        /\ (result.tag = "Ok") <=>
              /\ Len(sent) = 3
              /\ sent[3].type = "start_session"
              /\ reply_is(3, Success)
        /\ result.tag = "Ok" => result = Ok

C2_Witness ==
    /\ returned
    /\ start_session_sent
    /\ Len(received) = 3
    /\ result.tag = "Err"

\* C3: once the answer to PostAuthMessageResponse is Error(AuthError, ""),
\* authenticate has returned AuthFailed("Authentication failed") and has
\* written no StartSession.
C3_EmptyAuthErrorNormalised ==
    reply_is(2, Error("auth_error", "")) =>
        /\ returned
        /\ result = Err(AuthFailed("Authentication failed"))
        /\ ~start_session_sent

C3_Witness ==
    /\ returned
    /\ reply_is(2, Error("auth_error", ""))
    /\ sent = <<CreateSession(username), PostAuthMessageResponse(<<password>>)>>

\* The AuthMessage kinds that ask for or announce something other than an
\* error: AuthState NeedInput, NeedSecret and Info.
PromptKinds == {"visible", "secret", "info"}

\* C4 as stated, in the part that does not depend on the wording of the
\* message or on the transport: once the answer to CreateSession is
\* AuthMessage(Secret, "OTP:") and the daemon has answered the next request
\* too, whatever it answered, authenticate returns a ProtocolError.
C4_OtpAlwaysProtocolError ==
    (returned /\ reply_is(1, AuthMessage("secret", "OTP:")) /\ Len(received) >= 2) =>
        (result.tag = "Err" /\ result.error.kind = "ProtocolError")

\* C4: when the answer to CreateSession is AuthMessage(Secret, "OTP:"),
\* authenticate goes on and answers it with the password; it then returns
\* ProtocolError("Unexpected auth state") exactly when the answer to that
\* PostAuthMessageResponse is an AuthMessage of kind Visible, Secret or Info,
\* and it returns Ok(()) when that answer and the answer to StartSession are
\* Success.
C4_OtpAnsweredWithPassword ==
    reply_is(1, AuthMessage("secret", "OTP:")) =>
        /\ Len(sent) >= 2 => sent[2] = PostAuthMessageResponse(<<password>>)
        /\ (Len(received) = 1 /\ ~returned) =>
              pc \in {"post_auth_response", "post_auth_response_receive"}
        /\ returned =>
              /\ (result = Err(ProtocolError("Unexpected auth state")))
                    <=> reply_is_auth_message(2, PromptKinds)
              /\ (reply_is(2, Success) /\ reply_is(3, Success)) => result = Ok

C4_Witness ==
    /\ returned
    /\ received = <<AuthMessage("secret", "OTP:"), Success, Success>>
    /\ sent[2] = PostAuthMessageResponse(<<"secret">>)
    /\ result = Ok

\* C5: with GREETD_SOCK not set, authenticate makes no socket operation (no
\* connect, no write, no read), has no stream, sends nothing, and what it
\* returns is ConnectionFailed.
C5_NoEndpointNoSocket ==
    ~greetd_sock =>
        /\ sock_ops = <<>>
        /\ stream = "none"
        /\ written = 0
        /\ sent = <<>>
        /\ pc \in {"idle", "connect", "returned"}
        /\ returned => result = Err(ConnectionFailed("GREETD_SOCK not set"))

C5_Witness ==
    /\ ~greetd_sock
    /\ returned
    /\ result.tag = "Err"
    /\ result.error.kind = "ConnectionFailed"

\* C6: once the answer to PostAuthMessageResponse(password) is an AuthMessage
\* of kind Error with text msg, authenticate has returned AuthFailed(msg),
\* with msg exactly as the daemon sent it, and has written nothing after the
\* PostAuthMessageResponse.
C6_ErrorMessageRelayed ==
    reply_is_auth_message(2, {"error"}) =>
        /\ returned
        /\ result = Err(AuthFailed(received[2].auth_message))
        /\ sent = <<CreateSession(username), PostAuthMessageResponse(<<password>>)>>

C6_Witness ==
    /\ returned
    /\ reply_is(2, AuthMessage("error", "OTP:"))
    /\ result = Err(AuthFailed("OTP:"))

\* C7 as stated: once the answer to PostAuthMessageResponse(password) is an
\* AuthMessage of kind Visible, Secret or Info, authenticate has returned
\* ProtocolError("unexpected auth state").
C7_PromptIsLowercaseProtocolError ==
    reply_is_auth_message(2, PromptKinds) =>
        /\ returned
        /\ result = Err(ProtocolError("unexpected auth state"))

\* C7: once the answer to PostAuthMessageResponse(password) is an
\* AuthMessage of kind Visible, Secret or Info, authenticate has returned
\* ProtocolError("Unexpected auth state"): it has written nothing after that
\* one PostAuthMessageResponse, so no second answer and no StartSession.
C7_SecondPromptIsProtocolError ==
    reply_is_auth_message(2, PromptKinds) =>
        /\ returned
        /\ result = Err(ProtocolError("Unexpected auth state"))
        /\ sent = <<CreateSession(username), PostAuthMessageResponse(<<password>>)>>

C7_Witness ==
    /\ returned
    /\ reply_is(2, AuthMessage("visible", ""))
    /\ result.tag = "Err"
    /\ result.error.kind = "ProtocolError"

\* C8 as stated: the answer to StartSession decides what authenticate
\* returns: Success gives Ok(()), an Error of either kind gives AuthFailed,
\* an AuthMessage of any kind gives ProtocolError("unexpected response").
C8_StartSessionLowercaseMessage ==
    Len(received) = 3 =>
        /\ returned
        /\ received[3] = Success => result = Ok
        /\ received[3].type = "error" =>
              result.tag = "Err" /\ result.error.kind = "AuthFailed"
        /\ received[3].type = "auth_message" =>
              result = Err(ProtocolError("unexpected response"))

\* C8: the answer to StartSession decides what authenticate returns:
\* Success, and only Success, gives Ok(()), an Error of either kind gives
\* AuthFailed, an AuthMessage of any kind gives
\* ProtocolError("Unexpected response").
C8_StartSessionAcceptsOnlySuccess ==
    Len(received) = 3 =>
        /\ returned
        /\ (received[3] = Success) <=> (result = Ok)
        /\ received[3].type = "error" =>
              result.tag = "Err" /\ result.error.kind = "AuthFailed"
        /\ received[3].type = "auth_message" =>
              result = Err(ProtocolError("Unexpected response"))

C8_Witness ==
    /\ returned
    /\ start_session_sent
    /\ reply_is(3, AuthMessage("info", ""))
    /\ result = Err(ProtocolError("Unexpected response"))

\* The response authenticate read last, when it is a Response::Error.
last_is_error ==
    /\ received # <<>>
    /\ received[Len(received)].type = "error"

\* C9: when the response authenticate read last is an Error of either kind,
\* authenticate has returned AuthFailed with the daemon's description when
\* that is not empty and with "Authentication failed" when it is; and no
\* AuthFailed that authenticate returns has an empty reason.
C9_AuthFailedReasonNeverEmpty ==
    /\ last_is_error =>
          /\ returned
          /\ result = Err(AuthFailed(
                 IF received[Len(received)].description = ""
                 THEN "Authentication failed"
                 ELSE received[Len(received)].description))
    /\ (returned /\ result.tag = "Err" /\ result.error.kind = "AuthFailed") =>
          result.error.msg # ""

----------------------------------------------------------------------------
(* Properties of the stream, under authenticate and under direct calls. *)

\* Number of receive() calls that returned without having read a frame.
FailedReads ==
    Cardinality({i \in 1..Len(sock_ops) : sock_ops[i] = "read"})
        - (written - outstanding)

direct == pc \in {"client", "client_receive"}

----------------------------------------------------------------------------
(* One attempt, one connection. *)

\* Number of connects this authenticate call has made.
connects == Cardinality({i \in 1..Len(sock_ops) : sock_ops[i] = "connect"})

RequestOrder == <<"create_session", "post_auth_message_response", "start_session">>

\* Within one call: at most one connect, and the requests written are each of
\* CreateSession, PostAuthMessageResponse, StartSession at most once, in that
\* order, starting from CreateSession on a stream this call has opened; only
\* the last socket operation can have failed, and then the call has returned
\* that failure.
NoRetryWithinCall ==
    /\ connects <= 1
    /\ Len(sent) <= 3
    /\ written = Len(sent)
    /\ \A i \in 1..Len(sent) : sent[i].type = RequestOrder[i]
    /\ stream = "open" => connects = 1
    /\ written > 0 => connects = 1
    /\ \A i \in 1..Len(io) :
          io[i].tag = "Err" => (i = Len(io) /\ returned /\ result = io[i])
    /\ (result.tag # "None") <=> returned

\* Once the call has returned, nothing more is done for it and what it
\* returned stays; the only step left is a new call, which starts with no
\* stream, nothing written and nothing read.
ReturnedOnce ==
    returned =>
        \/ UNCHANGED <<result, sent, received, sock_ops, stream, written, pc>>
        \/ /\ pc' = "connect"
           /\ attempts' = attempts + 1
           /\ stream' = "none"
           /\ sock_ops' = <<>>
           /\ written' = 0
           /\ sent' = <<>>
           /\ received' = <<>>
           /\ unread' = <<>>
           /\ result' = None

\* C11: no retry.  Within one authenticate call there is at most one connect
\* and each of CreateSession, PostAuthMessageResponse, StartSession is sent at
\* most once; the first failure ends the call and is returned once.  A later
\* call starts over: new connection, CreateSession first.
C11_NoRetry == []NoRetryWithinCall /\ [][ReturnedOnce]_vars

C11_Witness ==
    /\ attempts = 2
    /\ pc = "create_session_receive"
    /\ sock_ops = <<"connect", "write">>
    /\ sent = <<CreateSession(username)>>

----------------------------------------------------------------------------
(* The connection of an attempt. *)

\* No connection is open before, between or after calls, and a call that has
\* not connected yet has none.
NoStreamOutsideCall ==
    /\ pc \in {"idle", "connect"} => stream = "none"
    /\ returned => stream # "open"
    /\ stream = "open" => connects = 1

\* A stream is opened only by the connect of the running call, from no stream
\* at all, and a closed stream stays closed until the next call drops it.
StreamOpenedByConnect ==
    /\ (stream # "open" /\ stream' = "open") =>
          (pc = "connect" /\ stream = "none" /\ sock_ops' = <<"connect">>)
    /\ (stream = "closed" /\ stream' # "closed") =>
          (stream' = "none" /\ pc' = "connect" /\ sock_ops' = <<>>)
    /\ (stream = "open" /\ stream' # "open") => (stream' = "closed" /\ pc' = "returned")

\* C18: a connection belongs to one attempt.  When authenticate has returned,
\* with Ok or with any error, the stream it opened is closed; no stream is
\* open between calls, and a later call opens its own.
C18_ConnectionPerAttempt == []NoStreamOutsideCall /\ [][StreamOpenedByConnect]_vars

C18_Witness ==
    /\ attempts = 2
    /\ returned
    /\ result.tag = "Err"
    /\ result.error.kind = "AuthFailed"
    /\ stream = "closed"

----------------------------------------------------------------------------
(* The StartSession request. *)

\* The argv expected of each session command line.
ExpectedArgv(c) ==
    CASE c = CmdBinSh -> <<CmdBinSh>>
      [] c = CmdQuoted -> << <<"s", "h">>, <<"-", "c">>, <<"a", " ", "b">> >>
      [] c = CmdUnbalanced -> <<CmdUnbalanced>>

\* The write of the third request has been attempted.
start_session_attempted ==
    Cardinality({i \in 1..Len(sock_ops) : sock_ops[i] = "write"}) = 3

\* C20: once the answer to the password is Success (Done), authenticate goes
\* on to write a StartSession; the StartSession written carries the shell
\* split of the session command line, or the whole line as its only word when
\* the split fails, and an empty environment.  No StartSession is written
\* before Done.
C20_StartSessionArgv ==
    /\ reply_is(2, Success) => (pc = "start_session" \/ start_session_attempted)
    /\ \A i \in 1..Len(sent) :
          sent[i].type = "start_session" =>
              /\ i = 3
              /\ reply_is(2, Success)
              /\ sent[i] = StartSession(ExpectedArgv(session_cmd), <<>>)
    /\ (reply_is(2, Success) /\ Len(sent) = 3) => sent[3].type = "start_session"

C20_Witness ==
    /\ session_cmd = CmdUnbalanced
    /\ reply_is(2, Success)
    /\ Len(sent) = 3
    /\ sent[3] = StartSession(<<CmdUnbalanced>>, <<>>)

----------------------------------------------------------------------------
(* Two calls with the same arguments. *)

\* The call that has returned is the repetition of the call before it, and
\* every socket operation had the outcome it had in the call before: the same
\* connect result, the same write results, the same responses read.
same_daemon_behaviour ==
    /\ returned
    /\ prev.attempt > 0
    /\ prev.attempt + 1 = attempts
    /\ prev.io = io

\* C19: two consecutive failed authenticate calls with the same arguments,
\* against a daemon that behaves the same way, make the same socket
\* operations each with its own connect, send the same requests and return the
\* same failure.
C19_SecondCallSameAsFirst ==
    (same_daemon_behaviour /\ prev.result.tag = "Err") =>
        /\ result = prev.result
        /\ sent = prev.sent
        /\ sock_ops = prev.sock_ops
        /\ (greetd_sock => (connects = 1 /\ sock_ops[1] = "connect"))
        /\ sent # <<>> => sent[1] = CreateSession(username)

C19_Witness ==
    /\ same_daemon_behaviour
    /\ result = Err(AuthFailed("denied"))
    /\ Len(sent) = 2
    /\ sent = prev.sent

----------------------------------------------------------------------------
(* cancel_session. *)

\* The step in which a cancel_session called directly returns from its
\* receive().
cancel_session_returns ==
    /\ pc = "client_receive"
    /\ method.name = "cancel_session"
    /\ pc' = "client"

\* C17: cancel_session swallows errors.  Whatever its receive() returned, a
\* failed read or a daemon Error response, cancel_session returns Ok(()).
C17_CancelSessionSwallowsErrors == [][cancel_session_returns => ret' = Ok]_vars

----------------------------------------------------------------------------
(* The Greeter. *)

\* This step is update(m).
update_of(m) == flip' # flip /\ msg' = m

\* This step starts an authenticate call.
attempt_starts == attempts' # attempts

\* update(m) was the last message handled.
handled(m) == msg = m

\* An authenticate call is running or its result waits to be delivered.
in_flight == pc \notin {"idle", "returned", "exited"} \/ (returned /\ greeter.authenticating)

\* authenticating is true exactly while an attempt is in flight; without it
\* no call is running.
AuthenticatingWhileInFlight ==
    /\ in_flight <=> greeter.authenticating
    /\ attempts = 0 <=> pc = "idle"

\* A Submit while authenticating changes nothing; a call starts only in a
\* Submit taken while not authenticating, when no call is running; and
\* authenticating becomes false only in the AuthResult of the call that has
\* returned.
OneAttemptAtATime ==
    /\ (update_of("Submit") /\ greeter.authenticating) =>
          UNCHANGED <<greeter, auth_vars>>
    /\ attempt_starts =>
          /\ update_of("Submit")
          /\ ~greeter.authenticating
          /\ greeter'.authenticating
          /\ pc \in {"idle", "returned"}
          /\ attempts' = attempts + 1
    /\ (greeter.authenticating /\ ~greeter'.authenticating) =>
          (update_of("AuthResult") /\ returned)

\* C12: at most one attempt in flight.  Under any interleaving of messages
\* with the steps of the authenticate task, a Submit received while
\* authenticating starts no call and changes no state, and a new call starts
\* only after the AuthResult of the call before has been handled.
C12_OneAttemptInFlight == []AuthenticatingWhileInFlight /\ [][OneAttemptAtATime]_vars

C12_Witness ==
    /\ handled("Submit")
    /\ greeter.authenticating
    /\ pc = "post_auth_response_receive"
    /\ attempts = 2
    /\ greeter.password = "secret"

\* C13: a Submit while the username is empty starts no authenticate call and
\* makes no socket operation, whichever field has the focus.
C13_EmptyUsernameNoCall ==
    [][(update_of("Submit") /\ greeter.username = "") => UNCHANGED auth_vars]_vars

C13_Witness ==
    /\ handled("Submit")
    /\ greeter.username = ""
    /\ greeter.password = "secret"
    /\ greeter.error = UsernameRequired
    /\ greeter.focus = "Username"
    /\ returned

\* This step is a Submit with the focus on the password field and the
\* password empty.
submit_empty_password ==
    /\ update_of("Submit")
    /\ greeter.focus = "Password"
    /\ greeter.password = ""

ValidationErrors == {UsernameRequired, PasswordRequired}

\* C14 as stated: a Submit with the focus on the password field and the
\* password empty starts no call, leaves the Greeter not authenticating and
\* shows a validation error.
C14_EmptyPasswordShowsError ==
    [][submit_empty_password =>
          /\ UNCHANGED auth_vars
          /\ ~greeter'.authenticating
          /\ greeter'.error \in ValidationErrors]_vars

\* C14: a Submit with the focus on the password field and the password empty
\* starts no call.  While no attempt is in flight the Greeter stays not
\* authenticating and shows "Username required" if the username is empty and
\* "Password required" otherwise; while an attempt is in flight the Submit is
\* ignored.
C14_EmptyPasswordNoCall ==
    [][submit_empty_password =>
          /\ UNCHANGED auth_vars
          /\ greeter'.authenticating = greeter.authenticating
          /\ IF greeter.authenticating
             THEN greeter' = greeter
             ELSE greeter'.error = IF greeter.username = ""
                                   THEN UsernameRequired
                                   ELSE PasswordRequired]_vars

C14_Witness ==
    /\ handled("Submit")
    /\ greeter.focus = "Password"
    /\ greeter.username = "alice"
    /\ greeter.password = ""
    /\ greeter.error = PasswordRequired
    /\ ~greeter.authenticating

\* The texts of the errors authenticate can return.
failure_text_of(kind) ==
    /\ result.tag = "Err"
    /\ result.error.kind = kind
    /\ greeter.error = Some(Display(result.error))

\* C15: the AuthResult of a failed call, whatever the kind of its error,
\* leaves the password empty, the focus on the password field, the text of
\* the error in error and authenticating false; the username is unchanged.
C15_FailureResetsForm ==
    [][(update_of("AuthResult") /\ result.tag = "Err") =>
          /\ greeter'.password = ""
          /\ greeter'.focus = "Password"
          /\ greeter'.error = Some(Display(result.error))
          /\ ~greeter'.authenticating
          /\ greeter'.username = greeter.username
          /\ UNCHANGED auth_vars]_vars

C15_Witness ==
    /\ handled("AuthResult")
    /\ failure_text_of("ProtocolError")
    /\ greeter.username = "alice"
    /\ greeter.password = ""
    /\ greeter.focus = "Password"
    /\ ~greeter.authenticating

\* The error shown is the text of the failure of the last call.
failure_displayed ==
    /\ returned
    /\ ~greeter.authenticating
    /\ result.tag = "Err"
    /\ greeter.error = Some(Display(result.error))

KeyMessages == {"UsernameChanged", "PasswordChanged", "Submit"}

\* The error changes only in a key message or an AuthResult, so it stays
\* over Tick; and a key message on a displayed failure removes it: what is
\* shown afterwards is nothing or a validation error.
ErrorUntilKey ==
    /\ greeter'.error # greeter.error =>
          \E m \in KeyMessages \cup {"AuthResult"} : update_of(m)
    /\ (failure_displayed /\ \E m \in KeyMessages : update_of(m)) =>
          greeter'.error \in {NoError} \cup ValidationErrors

\* C16: after a failure the error stays displayed until the next key event
\* and is removed by it: Tick leaves it, and a character typed into either
\* field or a Submit leaves no error of the failed call.
C16_ErrorUntilNextKey == [][ErrorUntilKey]_vars

C16_Witness ==
    /\ handled("Submit")
    /\ returned
    /\ result.tag = "Err"
    /\ greeter.error = PasswordRequired
    /\ greeter.password = ""
    /\ attempts = 1

----------------------------------------------------------------------------
(* The way to Done. *)

\* post_auth_response has returned AuthState::Done in this call: authenticate
\* is in its Done arm or past it.
done_reached ==
    \/ pc \in {"start_session", "start_session_receive"}
    \/ start_session_attempted

\* C21: Done is reached only after this call has connected, has written
\* CreateSession on that connection and has read a Success or an AuthMessage
\* in answer; after a failed connect or an Error in answer to CreateSession
\* the call has returned without reaching Done.
C21_DoneOnlyAfterCreateSession ==
    /\ done_reached =>
          /\ io[1] = Ok
          /\ sock_ops[1] = "connect"
          /\ connects = 1
          /\ sent[1] = CreateSession(username)
          /\ sent[2] = PostAuthMessageResponse(Some(password))
          /\ received[1].type \in {"success", "auth_message"}
          /\ received[2] = Success
    /\ (io # <<>> /\ io[1].tag = "Err") => (returned /\ ~done_reached)
    /\ (received # <<>> /\ received[1].type = "error") =>
          (returned /\ ~done_reached /\ Len(sent) = 1)

C21_Witness ==
    /\ pc = "start_session"
    /\ received = <<AuthMessage("secret", "OTP:"), Success>>

----------------------------------------------------------------------------
(* AuthMessages in answer to the password. *)

\* The text of the AuthMessage read in answer to the password appears in what
\* authenticate returned.
text_relayed ==
    /\ result.tag = "Err"
    /\ received[2].auth_message \in {Display(result.error)[i] :
                                       i \in 1..Len(Display(result.error))}

\* C22 as stated: an AuthMessage of any kind (Visible, Secret, Info or Error)
\* read in answer to the password gives a ProtocolError that does not carry
\* the text of the daemon.
C22_EveryAuthMessageIsProtocolError ==
    reply_is_auth_message(2, AuthMessageType) =>
        /\ returned
        /\ result.tag = "Err"
        /\ result.error.kind = "ProtocolError"
        /\ ~text_relayed

\* C22: an AuthMessage of kind Info, Visible or Secret read in answer to the
\* password gives the same ProtocolError whatever its text, which is not
\* relayed; an AuthMessage of kind Error gives AuthFailed and its text is
\* relayed.
C22_PromptsAreGenericProtocolError ==
    /\ reply_is_auth_message(2, PromptKinds) =>
          /\ returned
          /\ result.tag = "Err"
          /\ result.error.kind = "ProtocolError"
          /\ result.error.msg = "Unexpected auth state"
          /\ ~text_relayed
    /\ reply_is_auth_message(2, {"error"}) =>
          /\ returned
          /\ result.tag = "Err"
          /\ result.error.kind = "AuthFailed"
          /\ text_relayed

C22_Witness ==
    /\ returned
    /\ reply_is(2, AuthMessage("info", "OTP:"))
    /\ Display(result.error) = <<"Protocol error: ", "Unexpected auth state">>

----------------------------------------------------------------------------
(* Transport failures. *)

\* The i-th socket operation of this call failed: 1 is the connect, the
\* others are the writes and reads after it.
op_failed(i) == i <= Len(io) /\ io[i].tag = "Err"

\* C23: a write or read that fails after the connect is the last socket
\* operation of the call, which has returned its ProtocolError; and
\* ConnectionFailed is returned only for the connect itself, with nothing
\* written or read.
C23_TransportFailureFatal ==
    /\ greetd_sock => Len(sock_ops) = Len(io)
    /\ \A i \in 2..Len(io) :
          op_failed(i) =>
              /\ i = Len(io)
              /\ ~op_failed(1)
              /\ returned
              /\ result = io[i]
              /\ result.error.kind = "ProtocolError"
              /\ result.error.msg \in WriteErrors \cup ReadErrors \cup DecodeErrors
    /\ op_failed(1) <=>
          (returned /\ result.tag = "Err" /\ result.error.kind = "ConnectionFailed")
    /\ op_failed(1) =>
          /\ Len(io) = 1
          /\ sent = <<>>
          /\ received = <<>>
          /\ sock_ops \in {<<>>, <<"connect">>}
          /\ result.error.msg \in ConnectErrors \cup {"GREETD_SOCK not set"}

C23_Witness ==
    /\ returned
    /\ Len(io) = 4
    /\ op_failed(4)
    /\ sock_ops = <<"connect", "write", "read", "write">>
    /\ result = Err(ProtocolError("Broken pipe"))

----------------------------------------------------------------------------
(* The indicator before the blocking call. *)

Authenticating == [line |-> "authenticating...", text |-> NoError]

\* While a call is running, and in the terminal loop from the draw that
\* follows Pending on, authenticating is true and no error is set; in the
\* terminal loop the screen then shows "authenticating...".
IndicatorWhileCalling ==
    /\ pc \notin {"idle", "returned", "exited"} =>
          (greeter.authenticating /\ greeter.error = NoError)
    /\ tui.at \in {"pending_draw", "do_authenticate"} =>
          (greeter.authenticating /\ greeter.error = NoError)
    /\ (tui.at = "do_authenticate" \/ (tui.at = "blocked" /\ ~returned)) =>
          tui.screen = Authenticating

\* authenticate is called in a state with authenticating true and the error
\* cleared; in the terminal loop it is called right after the draw that
\* followed Pending, with "authenticating..." on the screen; and the terminal
\* loop leaves the blocking call to its end only on Ok, and goes back to the
\* top of the loop on an Err.
IndicatorBeforeCall ==
    /\ attempt_starts =>
          /\ greeter'.authenticating
          /\ greeter'.error = NoError
          /\ tui # NotRun => (tui.at = "do_authenticate" /\ tui.screen = Authenticating)
    /\ (tui.at = "poll" /\ tui'.at # "poll" /\ greeter'.authenticating) =>
          tui'.at = "pending_draw"
    /\ (tui.at = "blocked" /\ tui'.at # "blocked") =>
          /\ returned
          /\ tui'.at = IF result = Ok THEN "ended" ELSE "draw"
    /\ (tui # NotRun /\ tui.at # "ended" /\ tui'.at = "ended") =>
          (tui.at = "blocked" /\ result = Ok)

----------------------------------------------------------------------------
(* Termination. *)

receiving ==
    pc \in {"create_session_receive", "post_auth_response_receive",
            "start_session_receive"}

\* Socket operations of one kind this call has made.
ops(kind) == Cardinality({i \in 1..Len(sock_ops) : sock_ops[i] = kind})

\* A call makes at most three exchanges.
AtMostThreeExchanges ==
    /\ ops("write") <= 3
    /\ ops("read") <= 3
    /\ ops("read") <= ops("write")

\* C25 as stated, in its second part: authenticate comes back from a
\* receive only when the daemon has answered the request.
C25_ReturnsOnlyWhenAnswered == [][(receiving /\ pc' # pc) => unread # <<>>]_vars

\* With no answer waiting, receive comes back only with a failed read, which
\* ends the call with its ProtocolError: there is no timeout.
NoTimeout ==
    (receiving /\ pc' # pc /\ unread = <<>>) =>
        /\ pc' = "returned"
        /\ result' \in {Err(ProtocolError(e)) : e \in ReadErrors}

\* Until the call has returned authenticating stays true, and a Submit
\* changes nothing.
StalledWhileCalling ==
    /\ (greeter.authenticating /\ ~returned) => greeter'.authenticating
    /\ (update_of("Submit") /\ in_flight) => UNCHANGED <<greeter, auth_vars>>

\* C25: a call makes at most three exchanges, and with a daemon that answers
\* every request and a call that goes on whenever it can, it returns.  With
\* no answer and the connection open the call stays in its receive, which
\* has no timeout (it ends only if the read fails); authenticating is then
\* true for as long and every Submit is ignored.
C25_Termination ==
    /\ []AtMostThreeExchanges
    /\ [][NoTimeout]_vars
    /\ [][StalledWhileCalling]_vars
    /\ (pc = "connect") ~> returned

C25_Witness ==
    /\ pc = "post_auth_response_receive"
    /\ unread = <<>>
    /\ answered = 1
    /\ greeter.authenticating
    /\ handled("Submit")
    /\ greeter.password = ""

----------------------------------------------------------------------------
(* The requests of one call. *)

\* The write of the third request of this call succeeded.
third_write_ok ==
    /\ start_session_attempted
    /\ \E i \in 1..Len(io) : io[i] = Ok /\ sock_ops[i] = "write" /\
          Cardinality({j \in 1..i : sock_ops[j] = "write"}) = 3

\* C26: the requests a call has written are a prefix of CreateSession,
\* PostAuthMessageResponse, StartSession.  A StartSession is written only
\* when the answer to PostAuthMessageResponse was Success, and after that
\* answer the next thing the call does is the write of StartSession.
\* CancelSession is never written: a call that fails after its CreateSession
\* was accepted ends with nothing written after the request that failed.
C26_RequestsArePrefix ==
    /\ Len(sent) <= 3
    /\ \A i \in 1..Len(sent) :
          /\ sent[i].type = RequestOrder[i]
          /\ sent[i] # CancelSession
    /\ ops("write") <= 3
    /\ start_session_sent <=> (reply_is(2, Success) /\ third_write_ok)
    /\ start_session_attempted => reply_is(2, Success)
    /\ reply_is(2, Success) =>
          \/ pc = "start_session" /\ Len(sock_ops) = 5
          \/ Len(sock_ops) >= 6 /\ sock_ops[6] = "write"
    /\ (returned /\ result.tag = "Err" /\ received # <<>>
          /\ received[1].type # "error") =>
          /\ sock_ops[Len(sock_ops)] \in {"read", "write"}
          /\ ops("write") \in {Len(sent), Len(sent) + 1}
          /\ ops("write") = Len(sent) + 1 =>
                (sock_ops[Len(sock_ops)] = "write" /\ io[Len(io)].tag = "Err")

C26_Witness ==
    /\ returned
    /\ received = <<AuthMessage("secret", ""), Error("auth_error", "denied")>>
    /\ result = Err(AuthFailed("denied"))
    /\ Len(sent) = 2

----------------------------------------------------------------------------
(* The password. *)

\* The requests written that carry an answer.
answers == {i \in 1..Len(sent) : sent[i].type = "post_auth_message_response"}

\* CreateSession got a proceed reply: Success or an AuthMessage of any kind.
create_session_proceeds ==
    /\ received # <<>>
    /\ received[1].type \in {"success", "auth_message"}

\* CreateSession failed: its write or its read failed (the second socket
\* operation of the call is the write, the third the read), or its answer
\* was an Error.
create_session_failed ==
    \/ op_failed(1) \/ op_failed(2) \/ op_failed(3)
    \/ (received # <<>> /\ received[1].type = "error")

\* C27: a call writes at most one PostAuthMessageResponse, and its answer is
\* Some(password).  After a proceed reply to CreateSession, Success or an
\* AuthMessage of any kind, the next thing the call does is that write;
\* when CreateSession failed nothing is written after it.
C27_PasswordOnceAfterProceed ==
    /\ Cardinality(answers) <= 1
    /\ \A i \in answers : i = 2 /\ sent[i] = PostAuthMessageResponse(Some(password))
    /\ answers # {} => create_session_proceeds
    /\ create_session_proceeds =>
          \/ pc = "post_auth_response" /\ Len(sock_ops) = 3
          \/ /\ Len(sock_ops) >= 4
             /\ sock_ops[4] = "write"
             /\ io[4] = Ok => answers = {2}
    /\ create_session_failed =>
          /\ returned
          /\ answers = {}
          /\ ops("write") <= 1

C27_Witness ==
    /\ received = <<AuthMessage("error", "OTP:")>>
    /\ sent = <<CreateSession("alice"), PostAuthMessageResponse(Some("secret"))>>
    /\ pc = "post_auth_response_receive"

====
